---- MODULE Spec2Model ----
(***************************************************************************)
(* Model of the divergent-set engine (divergent/records.py) and of the     *)
(* mash / euclidean distance routines (diverse_seq/distance.py).           *)
(*                                                                         *)
(* Numbers.  A float v of the program is the integer v * Unit, where       *)
(* Unit = Q * KmerTotal * Scale.  Every record holds KmerTotal k-mers, so  *)
(* a kfreqs vector is its kcounts vector in units of 1/KmerTotal; log2 is  *)
(* the table Lg (log2(x) * Scale, rounded); Q is a common denominator of   *)
(* every division by an engine size that the code performs, so that the    *)
(* quotients are exact.  Arithmetic is therefore exact rational            *)
(* arithmetic over the table: floating-point rounding is not modelled.     *)
(*                                                                         *)
(* Records are objects: a record is its identity in RecordIds, its kcounts *)
(* are fixed at construction and its delta_jsd is a mutable field shared   *)
(* by every engine that holds the record.                                  *)
(***************************************************************************)
EXTENDS Integers, Sequences, FiniteSets, TLC

\* ------------------------------------------------------------------ bounds
\* number of SeqRecord objects in the input list
NumRecords == 4
\* number of engine operations applied after the first from_records
MaxOps == 1

\* the k-mer count vectors a record may have (all of the same total)
KcountChoices == { <<3, 0>>, <<2, 1>>, <<1, 2>>, <<0, 3>> }

RecordIds == 1..NumRecords

VARIABLES
    kcounts,      \* SeqRecord.kcounts of each record object
    delta_jsd,    \* SeqRecord.delta_jsd of each record object (mutable, shared)
    sr,           \* the engine held by the caller
    recv,         \* the receiver of the last engine operation
    recvObs,      \* what the caller observed of recv before the operation
    op,           \* the last engine operation
    arg,          \* its record argument (0: none)
    xs,           \* the list last passed to from_records
    err,          \* how the last operation ended
    nops,         \* number of operations applied
    pc,           \* position of the selector (most_divergent / max_divergent)
    idx,          \* index of the record the selector's loop is at
    min_size,     \* min_size of max_divergent; size of most_divergent
    max_size,     \* max_size of max_divergent
    stat,         \* stat of max_divergent
    max_set,      \* max_set of max_divergent
    results,      \* the dict of _maximal_stat: stat value -> engine
    visited,      \* history: the engines _maximal_stat recorded, with their stat
    offered,      \* history: how often each record was given to replaced_lowest / +
    dropped,      \* history: the records that were dropped as lowest
    mash_call,    \* arguments of mash_distance: left_sketch, right_sketch, k, sketch_size
    mash_lr,      \* outcome of mash_distance(left, right, k, sketch_size)
    mash_rl,      \* outcome of mash_distance(right, left, k, sketch_size)
    pair_mode,    \* "mash" (mash_distances) or "euclidean" (euclidean_distances)
    pair_inputs,  \* sketches (mash) or kmer_seqs' kfreqs (euclidean), one per sequence
    distances,    \* the matrix being filled
    pair_pc,      \* position of the pairwise routine
    pair_i,       \* loop variable i
    pair_j,       \* loop variable j
    total,        \* total given to progress.add_task for the distance task
    updates,      \* number of progress.update(distance_task, advance=1) calls
    processed,    \* history: how often each unordered pair was computed
    dist_args,    \* the arguments given to dvs_dist(...)
    dist_app,     \* how dvs_dist.__init__ ended and the attributes it set
    sk_args,      \* mash_sketch: the set kmer_hashes and sketch_size
    sk_todo,      \* the hashes the loop of mash_sketch has not visited yet
    sk_heap,      \* the list heap of mash_sketch
    sk_out,       \* the list mash_sketch returned
    sk_pc,        \* position of mash_sketch
    km_args,      \* get_kmers: seq, k and num_states
    km_pc,        \* position of get_kmers
    km_i,         \* loop variable i of get_kmers
    skip_until,   \* the cursor skip_until of get_kmers
    kmers,        \* the list kmers of get_kmers
    hk_args,      \* a k-mer and the flag mash_canonical
    hk_out        \* what reverse_complement and hash_kmer returned for it

callerVars == <<recv, recvObs, op, arg, xs, err, nops>>
selectorVars ==
    <<pc, idx, min_size, max_size, stat, max_set, results, visited, offered, dropped>>
mashVars == <<mash_call, mash_lr, mash_rl>>
pairVars ==
    <<pair_mode, pair_inputs, distances, pair_pc, pair_i, pair_j, total, updates, processed>>
distVars == <<dist_args, dist_app>>
sketchVars == <<sk_args, sk_todo, sk_heap, sk_out, sk_pc>>
kmerVars == <<km_args, km_pc, km_i, skip_until, kmers>>
hashVars == <<hk_args, hk_out>>
utilVars == <<distVars, sketchVars, kmerVars, hashVars>>
vars == <<kcounts, delta_jsd, sr, callerVars, selectorVars, mashVars, pairVars, utilVars>>

\* ------------------------------------------------------------- arithmetic
RECURSIVE SeqSum(_)
SeqSum(s) == IF s = <<>> THEN 0 ELSE Head(s) + SeqSum(Tail(s))

RECURSIVE Gcd(_, _)
Gcd(a, b) == IF b = 0 THEN a ELSE Gcd(b, a % b)

RECURSIVE LcmUpTo(_)
LcmUpTo(n) == IF n <= 1 THEN 1 ELSE (LcmUpTo(n - 1) * n) \div Gcd(LcmUpTo(n - 1), n)

\* log2(x) * Scale for x = 1..40, rounded
Lg == << 0, 10000, 15850, 20000, 23219, 25850, 28074, 30000, 31699, 33219,
         34594, 35850, 37004, 38074, 39069, 40000, 40875, 41699, 42479, 43219,
         43923, 44594, 45236, 45850, 46439, 47004, 47549, 48074, 48580, 49069,
         49542, 50000, 50444, 50875, 51293, 51699, 52095, 52479, 52854, 53219 >>

Scale == Lg[2]

\* length of a kfreqs vector (num_states ^ k) and number of k-mers per record
VecLen == Len(CHOOSE v \in KcountChoices : TRUE)
KmerTotal == SeqSum(CHOOSE v \in KcountChoices : TRUE)

Q == LcmUpTo(NumRecords) * LcmUpTo(NumRecords)

Unit == Q * KmerTotal * Scale

\* x * log2(x); entries close to zero are filtered out before the logarithm
XLgX(x) == IF x <= 0 THEN 0 ELSE x * Lg[x]

ZeroVec == [i \in 1..VecLen |-> 0]
VecAdd(a, b) == [i \in 1..VecLen |-> a[i] + b[i]]
VecSub(a, b) == [i \in 1..VecLen |-> a[i] - b[i]]
VecSum(a) == SeqSum(a)

\* SeqRecord.kfreqs and SeqRecord.entropy (in Unit)
Kfreqs(r) == kcounts[r]
RecEntropy(r) ==
    Q * (KmerTotal * Lg[KmerTotal] - SeqSum([i \in 1..VecLen |-> XLgX(kcounts[r][i])]))

\* _jsd: entropy(summed_freqs / n) - summed_entropy / n
Jsd(summed_freqs, summed_entropy, n) ==
    (Q \div n) * (VecSum(summed_freqs) * Lg[n * KmerTotal]
                  - SeqSum([i \in 1..VecLen |-> XLgX(summed_freqs[i])]))
    - (summed_entropy \div n)

\* the ndarray _jsd yields NaN when n is 0 or an entry is negative
JsdIsNan(summed_freqs, n) == n = 0 \/ \E i \in 1..VecLen : summed_freqs[i] < 0

\* ----------------------------------------------------------- mash_distance
\* bounds of the sketches: hash values 1..MaxHash, k-mer size and sketch_size
MaxHash == 4
MaxK == 2
MaxSketchSize == 3

\* ln(x) * Scale for x = 1..24, rounded
Ln == << 0, 6931, 10986, 13863, 16094, 17918, 19459, 20794, 21972, 23026,
         23979, 24849, 25649, 26391, 27081, 27726, 28332, 28904, 29444, 29957,
         30445, 30910, 31355, 31781 >>

\* a distance d is the integer d * DistUnit; division by k is exact
DistUnit == Scale * LcmUpTo(MaxK)

\* ascending duplicate-free list of the elements of a set of hashes
RECURSIVE Ascending(_)
Ascending(S) ==
    IF S = {} THEN <<>>
    ELSE LET m == CHOOSE x \in S : \A y \in S : x <= y
         IN  <<m>> \o Ascending(S \ {m})

\* BottomSketch values: every ascending duplicate-free list over 1..MaxHash
Sketches == {Ascending(S) : S \in SUBSET (1..MaxHash)}

NoOutcome == [status |-> "none", distance |-> 0, intersection_size |-> 0, union_size |-> 0]

\* the merge walk of mash_distance (the while loop)
RECURSIVE MergeWalk(_, _, _, _, _, _, _)
MergeWalk(left_sketch, right_sketch, sketch_size, left_index, right_index, intersection_size, union_size) ==
    IF ~(/\ union_size < sketch_size
         /\ left_index < Len(left_sketch)
         /\ right_index < Len(right_sketch))
    THEN [left_index |-> left_index, right_index |-> right_index,
          intersection_size |-> intersection_size, union_size |-> union_size]
    ELSE LET left == left_sketch[left_index + 1]
             right == right_sketch[right_index + 1]
         IN  IF left < right
             THEN MergeWalk(left_sketch, right_sketch, sketch_size, left_index + 1,
                            right_index, intersection_size, union_size + 1)
             ELSE IF right < left
             THEN MergeWalk(left_sketch, right_sketch, sketch_size, left_index,
                            right_index + 1, intersection_size, union_size + 1)
             ELSE MergeWalk(left_sketch, right_sketch, sketch_size, left_index + 1,
                            right_index + 1, intersection_size + 1, union_size + 1)

\* UnionSize without the right sketch's rest
UnionSizeLeftOnly(w, left_sketch, right_sketch, sketch_size) ==
    IF w.union_size < sketch_size
    THEN LET with_left == w.union_size
                 + (IF w.left_index < Len(left_sketch)
                    THEN Len(left_sketch) - w.left_index ELSE 0)
         IN  IF with_left < sketch_size THEN with_left ELSE sketch_size
    ELSE w.union_size

\* mutant: the union is not cut to sketch_size
UnionSizeUnclamped(w, left_sketch, right_sketch, sketch_size) ==
    IF w.union_size < sketch_size
    THEN w.union_size
             + (IF w.left_index < Len(left_sketch)
                THEN Len(left_sketch) - w.left_index ELSE 0)
             + (IF w.right_index < Len(right_sketch)
                THEN Len(right_sketch) - w.right_index ELSE 0)
    ELSE w.union_size

\* the rest of the longer sketch counts towards the union, up to sketch_size
UnionSize(w, left_sketch, right_sketch, sketch_size) ==
    IF w.union_size < sketch_size
    THEN LET with_left == w.union_size
                 + (IF w.left_index < Len(left_sketch)
                    THEN Len(left_sketch) - w.left_index ELSE 0)
             with_both == with_left
                 + (IF w.right_index < Len(right_sketch)
                    THEN Len(right_sketch) - w.right_index ELSE 0)
         IN  IF with_both < sketch_size THEN with_both ELSE sketch_size
    ELSE w.union_size

\* mash_distance: the division intersection_size / union_size comes first
MashDistance(left_sketch, right_sketch, k, sketch_size) ==
    LET w == MergeWalk(left_sketch, right_sketch, sketch_size, 0, 0, 0, 0)
        intersection_size == w.intersection_size
        union_size == UnionSize(w, left_sketch, right_sketch, sketch_size)
        out(status, distance) ==
            [status |-> status, distance |-> distance,
             intersection_size |-> intersection_size, union_size |-> union_size]
    IN  IF union_size = 0 THEN out("ZeroDivisionError", 0)
        ELSE IF intersection_size = union_size THEN out("ok", 0)
        ELSE IF intersection_size = 0 THEN out("ok", DistUnit)
        ELSE IF k = 0 THEN out("ZeroDivisionError", 0)
        ELSE LET distance ==
                     ((Ln[union_size + intersection_size] - Ln[2 * intersection_size])
                         * LcmUpTo(MaxK)) \div k
             IN  out("ok", IF distance > DistUnit THEN DistUnit ELSE distance)

NoApp == [status |-> "none"]

DistIdle ==
    /\ dist_args = <<>>
    /\ dist_app = NoApp

SketchIdle ==
    /\ sk_args = <<>>
    /\ sk_todo = {}
    /\ sk_heap = <<>>
    /\ sk_out = <<>>
    /\ sk_pc = "idle"

KmersIdle ==
    /\ km_args = <<>>
    /\ km_pc = "idle"
    /\ km_i = 0
    /\ skip_until = 0
    /\ kmers = <<>>

HashIdle ==
    /\ hk_args = <<>>
    /\ hk_out = <<>>

UtilIdle ==
    /\ DistIdle
    /\ SketchIdle
    /\ KmersIdle
    /\ HashIdle

PairIdle ==
    /\ pair_mode = "none"
    /\ pair_inputs = <<>>
    /\ distances = <<>>
    /\ pair_pc = "idle"
    /\ pair_i = 0
    /\ pair_j = 0
    /\ total = 0
    /\ updates = 0
    /\ processed = <<>>

MashIdle ==
    /\ mash_call = [left_sketch |-> <<>>, right_sketch |-> <<>>, k |-> 0, sketch_size |-> 0]
    /\ mash_lr = NoOutcome
    /\ mash_rl = NoOutcome

\* ------------------------------------------------------------ the engine
\* SeqRecord.name: the records of an input list have pairwise distinct names;
\* TwinIds are further record objects, the twin r + NumRecords carrying the
\* name of record r
TwinIds == (NumRecords + 1)..(2 * NumRecords)
RecordName(r) == IF r \in RecordIds THEN r ELSE r - NumRecords

\* the value of SummedRecords before any engine exists
NoEngine ==
    [records |-> <<>>, summed_kfreqs |-> ZeroVec, summed_entropies |-> 0,
     total_jsd |-> 0, size |-> 0, record_names |-> {}, lowest |-> 0]

\* _summed_stats: element-wise sum of kfreqs and fsum of the entropies
SummedStats(records) ==
    [kfreqs |-> [i \in 1..VecLen |->
                    SeqSum([j \in 1..Len(records) |-> Kfreqs(records[j])[i]])],
     entropies |-> SeqSum([j \in 1..Len(records) |-> RecEntropy(records[j])])]

\* _delta_jsd: writes delta_jsd of every record of the list, in list order, and
\* ends the program at the first NaN
RECURSIVE DeltaJsdLoop(_, _, _, _, _, _)
DeltaJsdLoop(total_kfreqs, total_entropies, total_jsd, records, i, d) ==
    IF i > Len(records) THEN [nan |-> FALSE, delta |-> d]
    ELSE LET record == records[i]
             n == Len(records)
             summed_kfreqs == VecSub(total_kfreqs, Kfreqs(record))
             summed_entropies == total_entropies - RecEntropy(record)
         IN  IF JsdIsNan(summed_kfreqs, n - 1)
             THEN [nan |-> TRUE, delta |-> d]
             ELSE DeltaJsdLoop(total_kfreqs, total_entropies, total_jsd, records, i + 1,
                      [d EXCEPT ![record] =
                          total_jsd - Jsd(summed_kfreqs, summed_entropies, n - 1)])

DeltaJsd(total_kfreqs, total_entropies, records, d) ==
    DeltaJsdLoop(total_kfreqs, total_entropies,
                 Jsd(total_kfreqs, total_entropies, Len(records)), records, 1, d)

\* sorted(..., key=lambda x: x.delta_jsd): stable, ascending
InsertByDelta(sorted, x, d) ==
    LET pos == Cardinality({j \in 1..Len(sorted) : d[sorted[j]] <= d[x]})
    IN  SubSeq(sorted, 1, pos) \o <<x>> \o SubSeq(sorted, pos + 1, Len(sorted))

RECURSIVE SortedFrom(_, _, _, _)
SortedFrom(records, i, acc, d) ==
    IF i > Len(records) THEN acc
    ELSE SortedFrom(records, i + 1, InsertByDelta(acc, records[i], d), d)

\* mutant: the list is left in the order it was given
SortedByDeltaNoSort(records, d) == records

SortedByDelta(records, d) == SortedFrom(records, 1, <<>>, d)

\* _check_integrity, the validator of the records attribute: TRUE when it raises.
\* It runs on the value assigned to self.records and compares every later
\* element with the first one.
CheckIntegrityRaises(records, d) ==
    \/ records = <<>>
    \/ \E j \in 2..Len(records) : d[records[j]] < d[records[1]]

\* mutant: the constructor keeps lowest in the stored sums
SummedRecordsInitKeepsLowest(records, summed_kfreqs, summed_entropies, total_jsd, d) ==
    IF CheckIntegrityRaises(Tail(records), d)
    THEN [status |-> "RuntimeError", eng |-> NoEngine, delta |-> d]
    ELSE [status |-> "ok",
          eng |-> [records |-> Tail(records),
                   summed_kfreqs |-> summed_kfreqs,
                   summed_entropies |-> summed_entropies,
                   total_jsd |-> total_jsd,
                   size |-> Len(records),
                   record_names |-> {RecordName(records[j]) : j \in 1..Len(records)},
                   lowest |-> records[1]],
          delta |-> d]

\* SummedRecords.__init__
SummedRecordsInit(records, summed_kfreqs, summed_entropies, total_jsd, d) ==
    IF CheckIntegrityRaises(Tail(records), d)
    THEN [status |-> "RuntimeError", eng |-> NoEngine, delta |-> d]
    ELSE [status |-> "ok",
          eng |-> [records |-> Tail(records),
                   summed_kfreqs |-> VecSub(summed_kfreqs, Kfreqs(records[1])),
                   summed_entropies |-> summed_entropies - RecEntropy(records[1]),
                   total_jsd |-> total_jsd,
                   size |-> Len(records),
                   record_names |-> {RecordName(records[j]) : j \in 1..Len(records)},
                   lowest |-> records[1]],
          delta |-> d]

\* SummedRecords._make_new: summed_* are the totals over all of records
MakeNew(records, summed_kfreqs, summed_entropies, d) ==
    LET size == Len(records)
        total_jsd == Jsd(summed_kfreqs, summed_entropies, size)
        dj == DeltaJsd(summed_kfreqs, summed_entropies, records, d)
    IN  IF dj.nan
        THEN [status |-> "exit", eng |-> NoEngine, delta |-> dj.delta]
        ELSE SummedRecordsInit(SortedByDelta(records, dj.delta), summed_kfreqs,
                               summed_entropies, total_jsd, dj.delta)

\* SummedRecords.from_records
FromRecords(records, d) ==
    LET size == Len(records)
        ss == SummedStats(records)
        total_jsd == Jsd(ss.kfreqs, ss.entropies, size)
        dj == DeltaJsd(ss.kfreqs, ss.entropies, records, d)
    IN  IF dj.nan
        THEN [status |-> "exit", eng |-> NoEngine, delta |-> dj.delta]
        ELSE SummedRecordsInit(SortedByDelta(records, dj.delta), ss.kfreqs,
                               ss.entropies, total_jsd, dj.delta)

\* SummedRecords.__contains__: membership by name
Contains(e, item) == RecordName(item) \in e.record_names

\* SummedRecords.__add__
Add(e, other, d) ==
    IF Contains(e, other)
    THEN [status |-> "AssertionError", eng |-> NoEngine, delta |-> d]
    ELSE MakeNew(<<e.lowest, other>> \o e.records,
                 VecAdd(VecAdd(e.summed_kfreqs, Kfreqs(e.lowest)), Kfreqs(other)),
                 e.summed_entropies + RecEntropy(e.lowest) + RecEntropy(other), d)

\* mutant: subtraction forgets that the stored sums exclude lowest
SubForgetsLowest(e, other, d) ==
    LET records == SelectSeq(e.records \o <<e.lowest>>, LAMBDA r : r # other)
    IN  IF ~Contains(e, other)
        THEN [status |-> "AssertionError", eng |-> NoEngine, delta |-> d]
        ELSE IF Len(records) # Len(e.records)
        THEN [status |-> "ValueError", eng |-> NoEngine, delta |-> d]
        ELSE MakeNew(records,
                     VecAdd(e.summed_kfreqs, Kfreqs(e.lowest)),
                     e.summed_entropies + RecEntropy(e.lowest), d)

\* SummedRecords.__sub__
Sub(e, other, d) ==
    LET records == SelectSeq(e.records \o <<e.lowest>>, LAMBDA r : r # other)
    IN  IF ~Contains(e, other)
        THEN [status |-> "AssertionError", eng |-> NoEngine, delta |-> d]
        ELSE IF Len(records) # Len(e.records)
        THEN [status |-> "ValueError", eng |-> NoEngine, delta |-> d]
        ELSE MakeNew(records,
                     VecSub(VecAdd(e.summed_kfreqs, Kfreqs(e.lowest)), Kfreqs(other)),
                     e.summed_entropies + RecEntropy(e.lowest) - RecEntropy(other), d)

\* mutant: a record that leaves total_jsd as it is counts as an increase
IncreasesJsdOrKeeps(e, record) ==
    e.total_jsd <= Jsd(VecAdd(e.summed_kfreqs, Kfreqs(record)),
                       e.summed_entropies + RecEntropy(record), e.size)

\* SummedRecords.increases_jsd
IncreasesJsd(e, record) ==
    e.total_jsd < Jsd(VecAdd(e.summed_kfreqs, Kfreqs(record)),
                      e.summed_entropies + RecEntropy(record), e.size)

\* SummedRecords.mean_jsd
MeanJsd(e) == e.total_jsd \div e.size

\* SummedRecords.mean_delta_jsd: reads the records' current delta_jsd
MeanDeltaJsd(e, d) ==
    (SeqSum([j \in 1..Len(e.records) |-> d[e.records[j]]]) + d[e.lowest])
        \div (Len(e.records) + 1)

\* mutant: the candidate is added and lowest is kept
ReplacedLowestKeepsLowest(e, other, d) ==
    MakeNew(<<other, e.lowest>> \o e.records,
            VecAdd(VecAdd(e.summed_kfreqs, Kfreqs(e.lowest)), Kfreqs(other)),
            e.summed_entropies + RecEntropy(e.lowest) + RecEntropy(other), d)

\* SummedRecords.replaced_lowest
ReplacedLowest(e, other, d) ==
    MakeNew(<<other>> \o e.records,
            VecAdd(e.summed_kfreqs, Kfreqs(other)),
            e.summed_entropies + RecEntropy(other), d)

\* members of an engine in the order [lowest] + records
Members(e) == <<e.lowest>> \o e.records
MemberSet(e) == {Members(e)[j] : j \in 1..Len(Members(e))}

\* ascending order of delta_jsd along a list of records
IsSorted(records, d) ==
    \A j \in 1..(Len(records) - 1) : d[records[j]] <= d[records[j + 1]]

\* what a caller can read from an engine: its fields and properties and the
\* delta_jsd of its members
Observe(e, d) ==
    IF e.size = 0
    THEN [size |-> 0, record_names |-> {}, lowest |-> 0, records |-> <<>>,
          total_jsd |-> 0, mean_delta_jsd |-> 0, deltas |-> <<>>, sorted |-> TRUE]
    ELSE [size |-> e.size, record_names |-> e.record_names, lowest |-> e.lowest,
          records |-> e.records, total_jsd |-> e.total_jsd,
          mean_delta_jsd |-> MeanDeltaJsd(e, d),
          deltas |-> [j \in 1..Len(Members(e)) |-> d[Members(e)[j]]],
          sorted |-> IsSorted(Members(e), d)]

\* ------------------------------------------- engine operations by a caller
\* input lists: the records in input order, any selection of at least one
InputLists ==
    {SelectSeq([j \in 1..NumRecords |-> j], LAMBDA r : r \in S) :
        S \in (SUBSET RecordIds) \ {{}}}

\* lexicographic order of count vectors
RECURSIVE LexLeq(_, _)
LexLeq(a, b) ==
    \/ a = <<>>
    \/ Head(a) < Head(b)
    \/ Head(a) = Head(b) /\ LexLeq(Tail(a), Tail(b))

\* The engine reads a record only through its kfreqs, entropy, name and its
\* place in the list, so the records are numbered in the order of their counts.
EngineInit ==
    /\ kcounts \in {f \in [RecordIds -> KcountChoices] :
                       \A r \in 1..(NumRecords - 1) : LexLeq(f[r], f[r + 1])}
    /\ xs = <<>>
    /\ delta_jsd = [r \in RecordIds |-> 0]
    /\ sr = NoEngine
    /\ recv = NoEngine
    /\ recvObs = Observe(NoEngine, delta_jsd)
    /\ op = "none"
    /\ arg = 0
    /\ err = "none"
    /\ nops = 0
    /\ pc = "idle"
    /\ idx = 0
    /\ min_size = 0
    /\ max_size = 0
    /\ stat = "none"
    /\ max_set = FALSE
    /\ results = {}
    /\ visited = <<>>
    /\ offered = [r \in RecordIds |-> 0]
    /\ dropped = {}
    /\ MashIdle
    /\ PairIdle
    /\ UtilIdle

\* the caller replaces its engine by the result of an operation on it
Apply(name, r, res) ==
    /\ recv' = sr
    /\ recvObs' = Observe(sr, delta_jsd)
    /\ delta_jsd' = res.delta
    /\ sr' = IF res.status = "ok" THEN res.eng ELSE sr
    /\ err' = IF res.status = "ok" THEN "none" ELSE res.status
    /\ op' = name
    /\ arg' = r
    /\ nops' = nops + 1
    /\ name # "init" => xs' = IF name = "from_records" THEN sr.records ELSE xs
    /\ UNCHANGED <<kcounts, selectorVars, mashVars, pairVars, utilVars, utilVars>>

\* sr = SummedRecords.from_records(X)
Construct ==
    /\ op = "none"
    /\ \E X \in InputLists :
          LET res == FromRecords(X, delta_jsd)
          IN  /\ sr' = IF res.status = "ok" THEN res.eng ELSE sr
              /\ err' = IF res.status = "ok" THEN "none" ELSE res.status
              /\ delta_jsd' = res.delta
              /\ xs' = X
    /\ op' = "construct"
    /\ UNCHANGED <<kcounts, recv, recvObs, arg, nops, selectorVars, mashVars, pairVars, utilVars,
                   utilVars>>

CanOperate == op # "none" /\ sr.size > 0 /\ err # "exit" /\ nops < MaxOps

\* sr = sr + r
AddRecord ==
    /\ CanOperate
    /\ \E r \in RecordIds : Apply("add", r, Add(sr, r, delta_jsd))

\* sr = sr - r, also for a record object that is not a member
SubRecord ==
    /\ CanOperate
    /\ \E r \in RecordIds \cup TwinIds : Apply("sub", r, Sub(sr, r, delta_jsd))

\* sr = sr.replaced_lowest(r), for a record that is not a member (as the
\* selectors call it)
ReplaceLowest ==
    /\ CanOperate
    /\ \E r \in RecordIds :
          /\ ~Contains(sr, r)
          /\ Apply("replaced_lowest", r, ReplacedLowest(sr, r, delta_jsd))

\* sr = SummedRecords.from_records(sr.records)
Rebuild ==
    /\ CanOperate
    /\ Apply("from_records", 0, FromRecords(sr.records, delta_jsd))

\* sr = sr - r + r
SubThenAdd(e, r, d) ==
    LET first == Sub(e, r, d)
    IN  IF first.status # "ok" THEN first ELSE Add(first.eng, r, first.delta)

RoundTrip ==
    /\ CanOperate
    /\ \E r \in RecordIds :
          /\ Contains(sr, r)
          /\ Apply("sub_add", r, SubThenAdd(sr, r, delta_jsd))

EngineNext ==
    \/ Construct
    \/ AddRecord
    \/ SubRecord
    \/ ReplaceLowest
    \/ Rebuild
    \/ RoundTrip

SpecEngine == EngineInit /\ [][EngineNext]_vars

\* ------------------------------------------------- claims about the engine
NamesOf(records) == {RecordName(records[j]) : j \in 1..Len(records)}

\* an operation has just returned an engine to the caller
Returned == op # "none" /\ err = "none"

\* C1: an engine returned by from_records(X), +, - or replaced_lowest has
\* size == len(records) + 1, record_names equal to the names of its members,
\* and its members [lowest] + records in ascending order of delta_jsd, so that
\* lowest has the minimum delta_jsd; from_records(X) has size == len(X) and the
\* names of X.
C1_ReturnedEngineSorted ==
    Returned =>
        /\ sr.size = Len(sr.records) + 1
        /\ sr.record_names = NamesOf(Members(sr))
        /\ Cardinality(sr.record_names) = sr.size
        /\ IsSorted(Members(sr), delta_jsd)
        /\ \A m \in MemberSet(sr) : delta_jsd[sr.lowest] <= delta_jsd[m]
        /\ op \in {"construct", "from_records"} =>
              sr.size = Len(xs) /\ sr.record_names = NamesOf(xs)
        /\ op = "add" => sr.record_names = recv.record_names \cup {RecordName(arg)}
        /\ op = "sub" => sr.record_names = recv.record_names \ {RecordName(arg)}
        /\ op = "replaced_lowest" =>
              sr.record_names =
                  (recv.record_names \ {RecordName(recv.lowest)}) \cup {RecordName(arg)}

\* from_records returned an engine of three or more members whose order
\* differs from the order of the input list
C1_Witness ==
    /\ op = "construct"
    /\ err = "none"
    /\ Len(xs) >= 3
    /\ Members(sr) # xs
    /\ delta_jsd[sr.lowest] < delta_jsd[sr.records[1]]

\* C2: summed_kfreqs and summed_entropies of a returned engine are the sums of
\* kfreqs and of entropy over its members except lowest.
C2_SumsExcludeLowest ==
    Returned =>
        /\ sr.summed_kfreqs = SummedStats(sr.records).kfreqs
        /\ sr.summed_entropies = SummedStats(sr.records).entropies

\* sr - r returned an engine, r being another member than lowest
C2_Witness ==
    /\ op = "sub"
    /\ err = "none"
    /\ arg # recv.lowest
    /\ sr.summed_kfreqs # recv.summed_kfreqs

\* C3: for an engine of three or more members and a member r, (sr - r) + r is
\* an engine with the same size, record_names and total_jsd as sr.
C3_SubAddRoundTrip ==
    (op = "sub_add" /\ recv.size >= 3) =>
        /\ err = "none"
        /\ sr.size = recv.size
        /\ sr.record_names = recv.record_names
        /\ sr.total_jsd = recv.total_jsd

\* the round trip was made with r = lowest on an engine of three members or more
C3_Witness ==
    /\ op = "sub_add"
    /\ err = "none"
    /\ recv.size >= 3
    /\ arg = recv.lowest
    /\ sr.total_jsd > 0

\* C4: sr + r, sr - r, sr.replaced_lowest(r) and from_records(sr.records) leave
\* the receiver as the caller observed it before the call: size, record_names,
\* lowest, order of records, total_jsd, mean_delta_jsd, the delta_jsd of each
\* member, and the ascending order of its members.
C4_ReceiverUnchanged ==
    (op \in {"add", "sub", "replaced_lowest", "from_records"} /\ err = "none") =>
        Observe(recv, delta_jsd) = recvObs

\* C12: sr - r for a record r that is not a member of sr raises ValueError and
\* produces no engine, both when no member of sr has r's name and when sr
\* holds a different record object with the same name as r.
C12_SubAbsentRaisesValueError ==
    (op = "sub" /\ arg \notin MemberSet(recv)) => (err = "ValueError" /\ sr = recv)

\* ---- SummedRecords(records, summed_kfreqs, summed_entropies, total_jsd)
\* the lists holding every member of an engine once, in any order
Orderings(e) ==
    {X \in [1..e.size -> MemberSet(e)] : \A i, j \in 1..e.size : X[i] = X[j] => i = j}

\* sr = SummedRecords(X, ...) called directly on a list of the records of
\* from_records(...), in an order of the caller's choice, with their totals
DirectConstruct ==
    /\ op = "construct"
    /\ err = "none"
    /\ \E X \in Orderings(sr) :
          LET ss == SummedStats(X)
          IN  /\ Apply("init", 0,
                       SummedRecordsInit(X, ss.kfreqs, ss.entropies,
                                         Jsd(ss.kfreqs, ss.entropies, Len(X)), delta_jsd))
              /\ xs' = X

DirectNext ==
    \/ Construct
    \/ DirectConstruct

SpecDirect == EngineInit /\ [][DirectNext]_vars

\* C19: constructing a SummedRecords directly from a record list whose
\* delta_jsd values are not in ascending order fails with an error and
\* produces no engine: a list is accepted only if every adjacent pair of
\* members, lowest against the first of records included, is in ascending
\* delta_jsd order.
C19_UnsortedListRejected ==
    (op = "init" /\ ~IsSorted(xs, delta_jsd)) => (err # "none" /\ sr = recv)

\* ------------------------------------------------------------ the selectors
\* the input list of a selector: every record object, in order
InputRecords == [j \in 1..NumRecords |-> j]

\* records[:n]
Prefix(records, n) == SubSeq(records, 1, IF n < Len(records) THEN n ELSE Len(records))

CallerIdle ==
    /\ recv = NoEngine
    /\ recvObs = Observe(NoEngine, delta_jsd)
    /\ op = "none"
    /\ arg = 0
    /\ xs = <<>>
    /\ err = "none"
    /\ nops = 0

SelectorInit ==
    /\ kcounts \in [RecordIds -> KcountChoices]
    /\ delta_jsd = [r \in RecordIds |-> 0]
    /\ sr = NoEngine
    /\ CallerIdle
    /\ MashIdle
    /\ PairIdle
    /\ UtilIdle
    /\ pc = "start"
    /\ idx = 0
    /\ results = {}
    /\ visited = <<>>
    /\ offered = [r \in RecordIds |-> 0]
    /\ dropped = {}

\* the selector takes the engine an operation returned, or stops when the
\* operation ended the program or raised
Take(res, next_pc) ==
    /\ sr' = IF res.status = "ok" THEN res.eng ELSE sr
    /\ delta_jsd' = res.delta
    /\ pc' = IF res.status = "ok" THEN next_pc ELSE "failed"

\* ---- most_divergent(records, size)
MostInit ==
    /\ SelectorInit
    /\ min_size \in 2..NumRecords
    /\ max_size = 0
    /\ stat = "none"
    /\ max_set = FALSE

\* sr = SummedRecords.from_records(records[:size]); return it when
\* len(records) <= size
MostSeed ==
    /\ pc = "start"
    /\ Take(FromRecords(Prefix(InputRecords, min_size), delta_jsd),
            IF Len(InputRecords) <= min_size THEN "done" ELSE "loop")
    /\ idx' = 1
    /\ UNCHANGED <<kcounts, callerVars, mashVars, pairVars, utilVars,
                   min_size, max_size, stat, max_set, results,
                   visited, offered, dropped>>

\* one iteration of `for r in track(records)`
MostIterate ==
    /\ pc = "loop"
    /\ idx <= Len(InputRecords)
    /\ LET r == InputRecords[idx]
       IN  \/ /\ Contains(sr, r)
              /\ UNCHANGED <<sr, delta_jsd, pc, offered, dropped>>
           \/ /\ ~Contains(sr, r)
              /\ ~IncreasesJsd(sr, r)
              /\ UNCHANGED <<sr, delta_jsd, pc, offered, dropped>>
           \/ /\ ~Contains(sr, r)
              /\ IncreasesJsd(sr, r)
              /\ Take(ReplacedLowest(sr, r, delta_jsd), "loop")
              /\ offered' = [offered EXCEPT ![r] = @ + 1]
              /\ dropped' = dropped \cup {sr.lowest}
    /\ idx' = idx + 1
    /\ UNCHANGED <<kcounts, callerVars, mashVars, pairVars, utilVars,
                   min_size, max_size, stat, max_set, results,
                   visited>>

\* the loop is exhausted: return sr
MostReturn ==
    /\ pc = "loop"
    /\ idx > Len(InputRecords)
    /\ pc' = "done"
    /\ UNCHANGED <<kcounts, delta_jsd, sr, callerVars, mashVars, pairVars, utilVars,
                   idx, min_size, max_size, stat,
                   max_set, results, visited, offered, dropped>>

MostNext ==
    \/ MostSeed
    \/ MostIterate
    \/ MostReturn

SpecMost == MostInit /\ [][MostNext]_vars

\* C5: most_divergent seeds the engine with the first `size` records, keeps
\* its size equal to `size` after every iteration, and returns exactly `size`
\* distinct records of the input; every record is given to the engine at most
\* once, and a record dropped as lowest is never a member again.
C5_MostDivergentFixedSize ==
    /\ pc # "failed"
    /\ pc \in {"loop", "done"} =>
          /\ sr.size = min_size
          /\ Cardinality(MemberSet(sr)) = min_size
          /\ MemberSet(sr) \subseteq RecordIds
          /\ MemberSet(sr) \cap dropped = {}
          /\ \A r \in RecordIds : offered[r] <= 1
    /\ (pc \in {"loop", "done"} /\ idx = 1) =>
          MemberSet(sr) = {InputRecords[j] : j \in 1..min_size}

\* most_divergent returned after replacing the lowest record at least twice
C5_Witness ==
    /\ pc = "done"
    /\ Cardinality(dropped) >= 2
    /\ min_size >= 2
    /\ \E r \in RecordIds : offered[r] = 1 /\ r \in MemberSet(sr)

\* increases_jsd(r) tells whether replaced_lowest(r) has a larger total_jsd,
\* for every record r that is not in the engine e
IncreasesTellsReplaced(e, d) ==
    \A r \in RecordIds :
        ~Contains(e, r) =>
            LET res == ReplacedLowest(e, r, d)
            IN  /\ res.status = "ok"
                /\ IncreasesJsd(e, r) <=> res.eng.total_jsd > e.total_jsd

\* C14: for an engine sr and a record r not in sr, sr.increases_jsd(r) is true
\* exactly when sr.replaced_lowest(r).total_jsd > sr.total_jsd; over a run of
\* most_divergent the engine's total_jsd never decreases and is strictly
\* greater after every replacement.
C14_TotalJsdGrows ==
    [][/\ sr'.size > 0 => IncreasesTellsReplaced(sr', delta_jsd')
       /\ sr.size > 0 =>
             /\ sr'.total_jsd >= sr.total_jsd
             /\ dropped' # dropped => sr'.total_jsd > sr.total_jsd]_vars

\* most_divergent replaced the lowest record at least once and is at an
\* engine that one outside record would improve and another would not
C14_Witness ==
    /\ pc = "loop"
    /\ max_size = 0
    /\ dropped # {}
    /\ \E r \in RecordIds : ~Contains(sr, r) /\ IncreasesJsd(sr, r)
    /\ \E r \in RecordIds : ~Contains(sr, r) /\ ~IncreasesJsd(sr, r)

\* ---- max_divergent(records, min_size, max_size, stat, max_set)
Stats == {"mean_jsd", "mean_delta_jsd", "total_jsd"}

\* getattr(e, stat), read with the records' current delta_jsd
StatOf(e, name, d) ==
    CASE name = "mean_jsd" -> MeanJsd(e)
      [] name = "mean_delta_jsd" -> MeanDeltaJsd(e, d)
      [] OTHER -> e.total_jsd

MaxInit ==
    /\ SelectorInit
    /\ min_size \in 2..NumRecords
    /\ max_size \in min_size..NumRecords
    /\ stat \in Stats \cup {"unknown"}
    /\ max_set \in BOOLEAN

\* sr = SummedRecords.from_records(records[:min_size]); an unknown stat raises
\* ValueError; sr is returned when len(records) <= min_size
MaxSeed ==
    /\ pc = "start"
    /\ Take(FromRecords(Prefix(InputRecords, min_size), delta_jsd),
            IF stat \notin Stats THEN "ValueError"
            ELSE IF Len(InputRecords) <= min_size THEN "done" ELSE "loop")
    /\ idx' = 1
    /\ UNCHANGED <<kcounts, callerVars, mashVars, pairVars, utilVars,
                   min_size, max_size, stat, max_set, results,
                   visited, offered, dropped>>

\* mutant: an engine above max_size is kept
TruncateNever(res, limit) == res

\* if sr.size > max_size: sr = SummedRecords.from_records(sr.records)
Truncate(res, limit) ==
    IF res.status = "ok" /\ res.eng.size > limit
    THEN FromRecords(res.eng.records, res.delta)
    ELSE res

\* nsr = sr + r; sr = nsr if getattr(nsr, stat) > getattr(sr, stat)
\*                      else sr.replaced_lowest(r)
\* Both stats are read after sr + r has written the records' delta_jsd.
ExtendOrReplace(e, r, name, d) ==
    LET plus == Add(e, r, d)
        nsr == plus.eng
    IN  IF plus.status # "ok" THEN plus
        ELSE IF StatOf(nsr, name, plus.delta) > StatOf(e, name, plus.delta)
        THEN plus
        ELSE ReplacedLowest(e, r, plus.delta)

\* one iteration of `for r in series`
MaxIterate ==
    /\ pc = "loop"
    /\ idx <= Len(InputRecords)
    /\ LET r == InputRecords[idx]
           next == ExtendOrReplace(sr, r, stat, delta_jsd)
       IN  \/ /\ Contains(sr, r)
              /\ UNCHANGED <<sr, delta_jsd, pc, offered, dropped>>
           \/ /\ ~Contains(sr, r)
              /\ ~IncreasesJsd(sr, r)
              /\ UNCHANGED <<sr, delta_jsd, pc, offered, dropped>>
           \/ /\ ~Contains(sr, r)
              /\ IncreasesJsd(sr, r)
              /\ Take(Truncate(next, max_size), "loop")
              /\ offered' = [offered EXCEPT ![r] = @ + 1]
              /\ dropped' = IF next.status = "ok" /\ next.eng.size > sr.size
                            THEN dropped
                            ELSE dropped \cup {sr.lowest}
    /\ idx' = idx + 1
    /\ UNCHANGED <<kcounts, callerVars, mashVars, pairVars, utilVars,
                   min_size, max_size, stat, max_set, results,
                   visited>>

\* the loop is exhausted: return sr, or hand it to _maximal_stat
MaxLoopEnd ==
    /\ pc = "loop"
    /\ idx > Len(InputRecords)
    /\ pc' = IF max_set THEN "maximal_stat" ELSE "done"
    /\ UNCHANGED <<kcounts, delta_jsd, sr, callerVars, mashVars, pairVars, utilVars,
                   idx, min_size, max_size, stat,
                   max_set, results, visited, offered, dropped>>

\* results[key] = e
DictPut(dict, key, e) ==
    {x \in dict : x.key # key} \cup {[key |-> key, eng |-> e]}

\* mutant: the entry with the smallest key is taken
DictMin(dict) ==
    (CHOOSE x \in dict : \A y \in dict : x.key <= y.key).eng

\* results[max(results)]
DictMax(dict) ==
    (CHOOSE x \in dict : \A y \in dict : y.key <= x.key).eng

\* _maximal_stat, up to its loop: an engine of size 2 is returned as it is
MaximalStatEnter ==
    /\ pc = "maximal_stat"
    /\ visited' = <<[eng |-> sr, stat |-> StatOf(sr, stat, delta_jsd)]>>
    /\ \/ /\ sr.size = 2
          /\ pc' = "done"
          /\ UNCHANGED results
       \/ /\ sr.size # 2
          /\ results' = DictPut({}, StatOf(sr, stat, delta_jsd), sr)
          /\ pc' = "shrink"
    /\ UNCHANGED <<kcounts, delta_jsd, sr, callerVars, mashVars, pairVars, utilVars,
                   idx, min_size, max_size, stat,
                   max_set, offered, dropped>>

\* while sr.size > size: sr = sr.from_records(sr.records); results[stat] = sr
MaximalStatShrink ==
    /\ pc = "shrink"
    /\ sr.size > min_size
    /\ LET res == FromRecords(sr.records, delta_jsd)
       IN  /\ Take(res, "shrink")
           /\ results' = IF res.status = "ok"
                         THEN DictPut(results, StatOf(res.eng, stat, res.delta), res.eng)
                         ELSE results
           /\ visited' = IF res.status = "ok"
                         THEN Append(visited, [eng |-> res.eng,
                                               stat |-> StatOf(res.eng, stat, res.delta)])
                         ELSE visited
    /\ UNCHANGED <<kcounts, callerVars, mashVars, pairVars, utilVars,
                   idx, min_size, max_size, stat, max_set,
                   offered, dropped>>

\* sr = results[max(results)]; return sr
MaximalStatPick ==
    /\ pc = "shrink"
    /\ ~(sr.size > min_size)
    /\ sr' = DictMax(results)
    /\ pc' = "done"
    /\ UNCHANGED <<kcounts, delta_jsd, callerVars, mashVars, pairVars, utilVars,
                   idx, min_size, max_size, stat,
                   max_set, results, visited, offered, dropped>>

MaxNext ==
    \/ MaxSeed
    \/ MaxIterate
    \/ MaxLoopEnd
    \/ MaximalStatEnter
    \/ MaximalStatShrink
    \/ MaximalStatPick

SpecMax == MaxInit /\ [][MaxNext]_vars

\* C6: the engine held by max_divergent has min_size <= size <= max_size at
\* the end of every loop iteration, through the post-pass and at return, for
\* every stat and for max_set true and false.
C6_MaxDivergentSizeBounds ==
    /\ pc # "failed"
    /\ pc \in {"loop", "maximal_stat", "shrink", "done"} =>
          (min_size <= sr.size /\ sr.size <= max_size)

\* max_divergent returned after an iteration grew the engine beyond max_size
\* and rebuilt it from sr.records
C6_Witness ==
    /\ pc = "done"
    /\ sr.size = max_size
    /\ min_size < max_size
    /\ max_size < NumRecords
    /\ Cardinality({r \in RecordIds : offered[r] = 1}) > max_size - min_size
    /\ Cardinality(dropped) >= 1

RECURSIVE MaxOf(_)
MaxOf(S) ==
    LET x == CHOOSE y \in S : TRUE
    IN  IF S = {x} THEN x
        ELSE LET m == MaxOf(S \ {x}) IN IF x > m THEN x ELSE m

RecordedStats == {visited[j].stat : j \in 1..Len(visited)}

CandidatePasses ==
    /\ pc = "loop"
    /\ idx <= Len(InputRecords)
    /\ ~Contains(sr, InputRecords[idx])
    /\ IncreasesJsd(sr, InputRecords[idx])
    /\ Add(sr, InputRecords[idx], delta_jsd).status = "ok"

\* the engine the claim expects after the candidate: sr + r when its stat
\* exceeds the stat sr had before sr + r was formed, else replaced_lowest(r);
\* then the cut to max_size
ExpectedNext ==
    LET r == InputRecords[idx]
        before == StatOf(sr, stat, delta_jsd)
        plus == Add(sr, r, delta_jsd)
    IN  Truncate(IF StatOf(plus.eng, stat, plus.delta) > before
                 THEN plus
                 ELSE ReplacedLowest(sr, r, plus.delta), max_size)

\* C13: in max_divergent, for a candidate r that passes the membership and
\* increases_jsd filters, the next engine is sr + r exactly when
\* stat(sr + r) > stat(sr), stat(sr) being the value the statistic of sr had
\* before sr + r was formed, and is sr.replaced_lowest(r) otherwise, for each
\* of mean_jsd, mean_delta_jsd and total_jsd.
C13_AdoptsOnPriorStat ==
    [][(CandidatePasses /\ ExpectedNext.status = "ok") =>
           (pc' = "loop" /\ sr' = ExpectedNext.eng)]_vars

\* ------------------------------------------------ calls of mash_distance
EverythingElseIdle ==
    /\ kcounts = [r \in RecordIds |-> CHOOSE v \in KcountChoices : TRUE]
    /\ delta_jsd = [r \in RecordIds |-> 0]
    /\ sr = NoEngine
    /\ CallerIdle
    /\ pc = "idle"
    /\ idx = 0
    /\ min_size = 0
    /\ max_size = 0
    /\ stat = "none"
    /\ max_set = FALSE
    /\ results = {}
    /\ visited = <<>>
    /\ offered = [r \in RecordIds |-> 0]
    /\ dropped = {}

MashInit ==
    /\ EverythingElseIdle
    /\ PairIdle
    /\ UtilIdle
    /\ mash_call \in [left_sketch : Sketches, right_sketch : Sketches,
                      k : 0..MaxK, sketch_size : 0..MaxSketchSize]
    /\ mash_lr = NoOutcome
    /\ mash_rl = NoOutcome

\* mash_distance(left_sketch, right_sketch, k, sketch_size)
CallLeftRight ==
    /\ mash_lr.status = "none"
    /\ mash_lr' = MashDistance(mash_call.left_sketch, mash_call.right_sketch,
                               mash_call.k, mash_call.sketch_size)
    /\ UNCHANGED <<kcounts, delta_jsd, sr, callerVars, selectorVars, pairVars, utilVars, mash_call,
                   mash_rl>>

\* mash_distance(right_sketch, left_sketch, k, sketch_size)
CallRightLeft ==
    /\ mash_rl.status = "none"
    /\ mash_rl' = MashDistance(mash_call.right_sketch, mash_call.left_sketch,
                               mash_call.k, mash_call.sketch_size)
    /\ UNCHANGED <<kcounts, delta_jsd, sr, callerVars, selectorVars, pairVars, utilVars, mash_call,
                   mash_lr>>

MashNext ==
    \/ CallLeftRight
    \/ CallRightLeft

SpecMash == MashInit /\ [][MashNext]_vars

\* C8: for a sketch s of length 0..sketch_size, k >= 1 and sketch_size >= 1,
\* mash_distance(s, s, k, sketch_size) returns 0.
C8_SelfDistanceZero ==
    (/\ mash_lr.status # "none"
     /\ mash_call.left_sketch = mash_call.right_sketch
     /\ Len(mash_call.left_sketch) <= mash_call.sketch_size
     /\ mash_call.k >= 1
     /\ mash_call.sketch_size >= 1) =>
        (mash_lr.status = "ok" /\ mash_lr.distance = 0)

\* C9: mash_distance(a, b, k, sketch_size) and mash_distance(b, a, k,
\* sketch_size) end the same way: the same intersection and union counts and
\* the same distance, or both fail.
C9_MashSymmetric ==
    (mash_lr.status # "none" /\ mash_rl.status # "none") => mash_lr = mash_rl

\* both calls returned a distance strictly between 0 and 1 for sketches of
\* different length, the longer one cut off by sketch_size
C9_Witness ==
    /\ mash_lr.status = "ok"
    /\ mash_rl.status = "ok"
    /\ mash_lr.distance > 0
    /\ mash_lr.distance < DistUnit
    /\ Len(mash_call.left_sketch) < Len(mash_call.right_sketch)
    /\ Len(mash_call.right_sketch) > mash_call.sketch_size

\* the n smallest elements of a set of hashes
Smallest(S, n) == {x \in S : Cardinality({y \in S : y < x}) < n}

\* the hashes of the two sketches of the call
LeftHashes == {mash_call.left_sketch[j] : j \in 1..Len(mash_call.left_sketch)}
RightHashes == {mash_call.right_sketch[j] : j \in 1..Len(mash_call.right_sketch)}

\* C15: for ascending duplicate-free sketches A and B and sketch_size s >= 1,
\* the counts mash_distance divides are union_size = min(s, |A \cup B|) and
\* intersection_size = the number of common elements among the
\* min(s, |A \cup B|) smallest elements of A \cup B, so that
\* 0 <= intersection_size <= union_size <= s; where the ratio is computed
\* (union_size > 0) the result is 0.0 exactly when intersection_size =
\* union_size and 1.0 when intersection_size = 0.
C15_JaccardCounts ==
    (mash_lr.status # "none" /\ mash_call.sketch_size >= 1) =>
        LET s == mash_call.sketch_size
            both == LeftHashes \cup RightHashes
            n == IF s < Cardinality(both) THEN s ELSE Cardinality(both)
        IN  /\ mash_lr.union_size = n
            /\ mash_lr.intersection_size =
                  Cardinality(LeftHashes \cap RightHashes \cap Smallest(both, n))
            /\ 0 <= mash_lr.intersection_size
            /\ mash_lr.intersection_size <= mash_lr.union_size
            /\ mash_lr.union_size <= s
            /\ mash_lr.union_size > 0 =>
                  /\ (mash_lr.status = "ok" /\ mash_lr.distance = 0)
                        <=> mash_lr.intersection_size = mash_lr.union_size
                  /\ mash_lr.intersection_size = 0
                        => (mash_lr.status = "ok" /\ mash_lr.distance = DistUnit)

\* a call returned a distance strictly between 0 and 1 with the union cut to
\* sketch_size and a common hash left beyond the cut
C15_Witness ==
    /\ mash_lr.status = "ok"
    /\ mash_lr.intersection_size > 0
    /\ mash_lr.intersection_size < mash_lr.union_size
    /\ mash_lr.union_size = mash_call.sketch_size
    /\ Cardinality(LeftHashes \cap RightHashes) > mash_lr.intersection_size

\* ------------------------------- mash_distances and euclidean_distances
\* number of sequences given to a pairwise routine
NumSeqs == 3

\* floor of the square root
RECURSIVE ISqrtBetween(_, _, _)
ISqrtBetween(x, lo, hi) ==
    IF lo = hi THEN lo
    ELSE LET mid == (lo + hi + 1) \div 2
         IN  IF mid * mid <= x THEN ISqrtBetween(x, mid, hi)
             ELSE ISqrtBetween(x, lo, mid - 1)
ISqrt(x) == ISqrtBetween(x, 0, IF x < Scale THEN x ELSE Scale)

\* euclidean_distance: numpy.linalg.norm(freq_1 - freq_2), as the integer
\* floor(distance * KmerTotal * EuclidScale)
EuclidScale == LcmUpTo(6)
EuclideanDistance(freq_1, freq_2) ==
    LET diff == VecSub(freq_1, freq_2)
    IN  ISqrt(SeqSum([i \in 1..VecLen |-> diff[i] * diff[i]]) * EuclidScale * EuclidScale)

\* the sketches mash_sketches hands to the loops: the lists over the two
\* smallest hashes; a sequence without a valid k-mer has the empty sketch
PairSketches == {s \in Sketches : \A j \in 1..Len(s) : s[j] <= 2}

Indices(n) == 0..(n - 1)
ZeroMatrix(n) == [c \in Indices(n) \X Indices(n) |-> 0]
UnorderedPairs(n) == {c \in Indices(n) \X Indices(n) : c[1] < c[2]}
PairKey(i, j) == IF i < j THEN <<i, j>> ELSE <<j, i>>

PairInit ==
    /\ EverythingElseIdle
    /\ pair_mode \in {"mash", "euclidean"}
    /\ mash_call \in [left_sketch : {<<>>}, right_sketch : {<<>>},
                      k : 1..MaxK, sketch_size : 1..2]
    /\ mash_lr = NoOutcome
    /\ mash_rl = NoOutcome
    /\ UtilIdle
    /\ \E n \in 0..NumSeqs :
          /\ pair_inputs \in
                IF pair_mode = "mash"
                THEN [1..n -> {s \in PairSketches : Len(s) <= mash_call.sketch_size}]
                ELSE [1..n -> KcountChoices]
          /\ processed = [c \in UnorderedPairs(n) |-> 0]
    /\ distances = <<>>
    /\ pair_pc = "start"
    /\ pair_i = 0
    /\ pair_j = 0
    /\ total = 0
    /\ updates = 0

\* the first (i, j) of the loops of mash_distances: range(1, n), range(i)
MashFirstPair == <<1, 0>>

\* the (i, j) after (i, j) in the loops of mash_distances
MashNextPair(i, j) == IF j + 1 < i THEN <<i, j + 1>> ELSE <<i + 1, 0>>

\* the first (i, j) of the loops of euclidean_distances: range(n), range(i + 1, n)
EuclidFirstPair == <<0, 1>>

\* the (i, j) after (i, j) in the loops of euclidean_distances
EuclidNextPair(i, j, n) == IF j + 1 < n THEN <<i, j + 1>> ELSE <<i + 1, i + 2>>

\* add_task(total = n * (n - 1) // 2); distances = np.zeros((n, n))
PairStart ==
    /\ pair_pc = "start"
    /\ LET n == Len(pair_inputs)
           first == IF pair_mode = "mash" THEN MashFirstPair ELSE EuclidFirstPair
       IN  /\ total' = (n * (n - 1)) \div 2
           /\ distances' = ZeroMatrix(n)
           /\ pair_i' = first[1]
           /\ pair_j' = first[2]
           /\ pair_pc' = "loop"
    /\ UNCHANGED <<kcounts, delta_jsd, sr, callerVars, selectorVars, mashVars, utilVars,
                   pair_mode, pair_inputs, updates, processed>>

\* the loops have a pair (i, j) left
PairLeft ==
    /\ pair_pc = "loop"
    /\ pair_i < Len(pair_inputs)
    /\ pair_j < Len(pair_inputs)

\* the body of the inner loop: one distance, two cells, one progress update
PairWrite(distance, next) ==
    /\ distances' = [distances EXCEPT ![<<pair_i, pair_j>>] = distance,
                                      ![<<pair_j, pair_i>>] = distance]
    /\ updates' = updates + 1
    /\ processed' = [processed EXCEPT ![PairKey(pair_i, pair_j)] = @ + 1]
    /\ pair_i' = next[1]
    /\ pair_j' = next[2]
    /\ UNCHANGED pair_pc

\* one pass of the inner loop of mash_distances; an exception of mash_distance
\* ends the routine
MashPairStep ==
    /\ pair_mode = "mash"
    /\ PairLeft
    /\ LET out == MashDistance(pair_inputs[pair_i + 1], pair_inputs[pair_j + 1],
                               mash_call.k, mash_call.sketch_size)
       IN  \/ /\ out.status = "ok"
              /\ PairWrite(out.distance, MashNextPair(pair_i, pair_j))
           \/ /\ out.status # "ok"
              /\ pair_pc' = out.status
              /\ UNCHANGED <<distances, updates, processed, pair_i, pair_j>>
    /\ UNCHANGED <<kcounts, delta_jsd, sr, callerVars, selectorVars, mashVars, utilVars,
                   pair_mode, pair_inputs, total>>

\* one pass of the inner loop of euclidean_distances
EuclidPairStep ==
    /\ pair_mode = "euclidean"
    /\ PairLeft
    /\ PairWrite(EuclideanDistance(pair_inputs[pair_i + 1], pair_inputs[pair_j + 1]),
                 EuclidNextPair(pair_i, pair_j, Len(pair_inputs)))
    /\ UNCHANGED <<kcounts, delta_jsd, sr, callerVars, selectorVars, mashVars, utilVars,
                   pair_mode, pair_inputs, total>>

\* return distances
PairReturn ==
    /\ pair_pc = "loop"
    /\ ~(pair_i < Len(pair_inputs) /\ pair_j < Len(pair_inputs))
    /\ pair_pc' = "done"
    /\ UNCHANGED <<kcounts, delta_jsd, sr, callerVars, selectorVars, mashVars, utilVars,
                   pair_mode, pair_inputs, distances, pair_i, pair_j, total, updates,
                   processed>>

PairNext ==
    \/ PairStart
    \/ MashPairStep
    \/ EuclidPairStep
    \/ PairReturn

SpecPair == PairInit /\ [][PairNext]_vars

\* the pairs computed so far: at most once each, both cells alike, the
\* diagonal untouched, one progress update per pair
PairsSoFar ==
    LET n == Len(pair_inputs)
    IN  /\ \A c \in UnorderedPairs(n) :
              /\ processed[c] <= 1
              /\ distances[<<c[1], c[2]>>] = distances[<<c[2], c[1]>>]
              /\ processed[c] = 0 => distances[c] = 0
        /\ \A i \in Indices(n) : distances[<<i, i>>] = 0
        /\ updates = Cardinality({c \in UnorderedPairs(n) : processed[c] = 1})
        /\ total = (n * (n - 1)) \div 2

\* every pair computed, as many progress updates as declared
AllPairsDone ==
    /\ \A c \in UnorderedPairs(Len(pair_inputs)) : processed[c] = 1
    /\ updates = total

\* a routine that returns has computed every pair exactly once
PairsDoneOnReturn ==
    /\ pair_pc # "start" => PairsSoFar
    /\ pair_pc = "done" => AllPairsDone

\* a routine returned a matrix over three sequences with a non-zero distance
PairsDoneOnReturnSeen ==
    /\ pair_pc = "done"
    /\ Len(pair_inputs) = NumSeqs
    /\ \E c \in UnorderedPairs(Len(pair_inputs)) : distances[c] > 0

\* C10: mash_distances and euclidean_distances compute every unordered pair
\* {i, j}, i # j, exactly once, each time writing the same distance to [i, j]
\* and [j, i] and advancing the distance task by one; when the routine has
\* ended the matrix is symmetric with a zero diagonal and the number of
\* progress updates equals the total n(n-1)/2 given to add_task.
C10_PairwiseMatrix ==
    /\ pair_pc # "start" => PairsSoFar
    /\ pair_pc \notin {"idle", "start", "loop"} => AllPairsDone

\* ---------------------------------------------------- dvs_dist.__init__
\* the values a caller passes; "hamming" stands for any distance_mode other
\* than the two known ones; None is NoSize for sketch_size and "None" for
\* mash_canonical_kmers
NoSize == 0 - 1
DistanceModes == {"mash", "euclidean", "hamming"}
Moltypes == {"dna", "rna", "protein"}
SketchSizes == {NoSize} \cup (1..MaxSketchSize)
CanonicalFlags == {"None", "True", "False"}

DistRaises(msg) == [status |-> "ValueError", msg |-> msg]

\* dvs_dist.__init__: the checks in the order of the code
DvsDistInit(distance_mode, k, sketch_size, moltype, mash_canonical_kmers, show_progress) ==
    LET canonical == IF mash_canonical_kmers = "None" THEN FALSE
                     ELSE mash_canonical_kmers = "True"
    IN  IF distance_mode \notin {"mash", "euclidean"}
        THEN DistRaises("Unexpected distance")
        ELSE IF moltype \notin {"dna", "rna"} /\ canonical
        THEN DistRaises("Canonical kmers only supported for dna sequences.")
        ELSE IF distance_mode = "mash" /\ sketch_size = NoSize
        THEN DistRaises("Expected sketch size for mash distance measure.")
        ELSE IF distance_mode # "mash" /\ sketch_size # NoSize
        THEN DistRaises("Sketch size should only be specified for the mash distance.")
        ELSE [status |-> "ok", _moltype |-> moltype, _k |-> k, _sketch_size |-> sketch_size,
              _distance_mode |-> distance_mode, _mash_canonical |-> canonical,
              _show_progress |-> show_progress]

DistInit ==
    /\ EverythingElseIdle
    /\ MashIdle
    /\ PairIdle
    /\ dist_args \in [distance_mode : DistanceModes, k : 1..MaxK, sketch_size : SketchSizes,
                      moltype : Moltypes, mash_canonical_kmers : CanonicalFlags,
                      show_progress : BOOLEAN]
    /\ dist_app = NoApp
    /\ SketchIdle
    /\ KmersIdle
    /\ HashIdle

\* app = dvs_dist(distance_mode, k=..., sketch_size=..., moltype=..., ...)
DistConstruct ==
    /\ dist_app.status = "none"
    /\ dist_app' = DvsDistInit(dist_args.distance_mode, dist_args.k, dist_args.sketch_size,
                               dist_args.moltype, dist_args.mash_canonical_kmers,
                               dist_args.show_progress)
    /\ UNCHANGED <<kcounts, delta_jsd, sr, callerVars, selectorVars, mashVars, pairVars,
                   sketchVars, kmerVars, hashVars, dist_args>>

DistNext == DistConstruct

SpecDist == DistInit /\ [][DistNext]_vars

\* C11: dvs_dist with mash_canonical_kmers true is rejected with a
\* configuration error whenever distance_mode is not mash or moltype is not
\* dna or rna, and is accepted only with distance_mode = mash and moltype dna
\* or rna.
C11_CanonicalOnlyMashDna ==
    (dist_app.status # "none" /\ dist_args.mash_canonical_kmers = "True") =>
        /\ (dist_args.distance_mode # "mash" \/ dist_args.moltype \notin {"dna", "rna"})
              => dist_app.status = "ValueError"
        /\ dist_app.status = "ok"
              => (dist_args.distance_mode = "mash" /\ dist_args.moltype \in {"dna", "rna"})

\* ------------------------------------------------------------ mash_sketch
\* the hashes of k-mers: Python's hash() gives signed integers
HashValues == (0 - 1)..(MaxHash - 1)

\* heapq._siftdown(heap, startpos, pos) with newitem taken out of heap[pos];
\* positions count from 0
RECURSIVE SiftDown(_, _, _, _)
SiftDown(heap, startpos, pos, newitem) ==
    IF pos > startpos /\ newitem < heap[((pos - 1) \div 2) + 1]
    THEN SiftDown([heap EXCEPT ![pos + 1] = heap[((pos - 1) \div 2) + 1]],
                  startpos, (pos - 1) \div 2, newitem)
    ELSE [heap EXCEPT ![pos + 1] = newitem]

\* heapq._siftup(heap, pos): the smaller child moves up until a leaf is
\* reached, then newitem is sifted down from there
RECURSIVE SiftUp(_, _, _, _)
SiftUp(heap, startpos, pos, newitem) ==
    LET endpos == Len(heap)
        childpos == 2 * pos + 1
        rightpos == childpos + 1
        smaller == IF rightpos < endpos /\ ~(heap[childpos + 1] < heap[rightpos + 1])
                   THEN rightpos ELSE childpos
    IN  IF childpos < endpos
        THEN SiftUp([heap EXCEPT ![pos + 1] = heap[smaller + 1]], startpos, smaller, newitem)
        ELSE SiftDown(heap, startpos, pos, newitem)

\* heapq.heappush(heap, item)
HeapPush(heap, item) == SiftDown(Append(heap, item), 0, Len(heap), item)

\* mutant: the item always takes the place of the root
HeapPushPopAlways(heap, item) ==
    IF heap # <<>> THEN SiftUp(heap, 0, 0, item) ELSE heap

\* heapq.heappushpop(heap, item): the heap after the call
HeapPushPop(heap, item) ==
    IF heap # <<>> /\ heap[1] < item THEN SiftUp(heap, 0, 0, item) ELSE heap

\* sorted(-kmer_hash for kmer_hash in heap)
SortedNegated(heap) == Ascending({0 - heap[j] : j \in 1..Len(heap)})

\* kmer_hashes is a set: any set of hash values, visited in any order
SketchInit ==
    /\ EverythingElseIdle
    /\ MashIdle
    /\ PairIdle
    /\ DistIdle
    /\ sk_args \in [kmer_hashes : SUBSET HashValues, sketch_size : 0..MaxSketchSize]
    /\ sk_todo = sk_args.kmer_hashes
    /\ sk_heap = <<>>
    /\ sk_out = <<>>
    /\ sk_pc = "loop"
    /\ KmersIdle
    /\ HashIdle

\* one pass of `for kmer_hash in kmer_hashes`
SketchVisit ==
    /\ sk_pc = "loop"
    /\ \E kmer_hash \in sk_todo :
          /\ sk_heap' = IF Len(sk_heap) < sk_args.sketch_size
                        THEN HeapPush(sk_heap, 0 - kmer_hash)
                        ELSE HeapPushPop(sk_heap, 0 - kmer_hash)
          /\ sk_todo' = sk_todo \ {kmer_hash}
    /\ UNCHANGED <<kcounts, delta_jsd, sr, callerVars, selectorVars, mashVars, pairVars,
                   distVars, kmerVars, hashVars, sk_args, sk_out, sk_pc>>

\* return sorted(-kmer_hash for kmer_hash in heap)
SketchReturn ==
    /\ sk_pc = "loop"
    /\ sk_todo = {}
    /\ sk_out' = SortedNegated(sk_heap)
    /\ sk_pc' = "done"
    /\ UNCHANGED <<kcounts, delta_jsd, sr, callerVars, selectorVars, mashVars, pairVars,
                   distVars, kmerVars, hashVars, sk_args, sk_todo, sk_heap>>

SketchNext ==
    \/ SketchVisit
    \/ SketchReturn

SpecSketch == SketchInit /\ [][SketchNext]_vars

MaxSeqLen == 4
MaxSymbol == 2
MaxKmer == 3

SeqsUpTo(n) == UNION {[1..m -> 0..MaxSymbol] : m \in 0..n}

\* seq[i : i + k], positions counting from 0
Window(seq, i, k) == SubSeq(seq, i + 1, i + k)

KmersInit ==
    /\ EverythingElseIdle
    /\ MashIdle
    /\ PairIdle
    /\ DistIdle
    /\ SketchIdle
    /\ km_args \in [seq : SeqsUpTo(MaxSeqLen), k : 1..MaxKmer, num_states : 1..(MaxSymbol + 1)]
    /\ km_pc = "first"
    /\ km_i = 0
    /\ skip_until = 0
    /\ kmers = <<>>
    /\ HashIdle

\* one pass of `for i in range(k)`: seq[i] raises IndexError past the end of
\* the array
KmersFirstLoop ==
    /\ km_pc = "first"
    /\ km_i < km_args.k
    /\ IF km_i >= Len(km_args.seq)
       THEN /\ km_pc' = "IndexError"
            /\ UNCHANGED <<km_i, skip_until>>
       ELSE /\ skip_until' = IF km_args.seq[km_i + 1] >= km_args.num_states
                             THEN km_i + 1 ELSE skip_until
            /\ km_i' = km_i + 1
            /\ UNCHANGED km_pc
    /\ UNCHANGED <<kcounts, delta_jsd, sr, callerVars, selectorVars, mashVars, pairVars,
                   distVars, sketchVars, hashVars, km_args, kmers>>

\* the first loop is exhausted
KmersFirstEnd ==
    /\ km_pc = "first"
    /\ km_i >= km_args.k
    /\ km_pc' = "second"
    /\ km_i' = 0
    /\ UNCHANGED <<kcounts, delta_jsd, sr, callerVars, selectorVars, mashVars, pairVars,
                   distVars, sketchVars, hashVars, km_args, skip_until, kmers>>

\* the skip_until cursor after looking at seq[i + k - 1]
SkipUntilAtEnd(seq, i, k, num_states, until) ==
    IF seq[i + k] >= num_states THEN i + k ELSE until

\* one pass of `for i in range(len(seq) - k + 1)`
KmersSecondLoop ==
    /\ km_pc = "second"
    /\ km_i < Len(km_args.seq) - km_args.k + 1
    /\ skip_until' = SkipUntilAtEnd(km_args.seq, km_i, km_args.k, km_args.num_states,
                                    skip_until)
    /\ kmers' = IF km_i < skip_until' THEN kmers
                ELSE Append(kmers, Window(km_args.seq, km_i, km_args.k))
    /\ km_i' = km_i + 1
    /\ UNCHANGED <<kcounts, delta_jsd, sr, callerVars, selectorVars, mashVars, pairVars,
                   distVars, sketchVars, hashVars, km_args, km_pc>>

\* return kmers
KmersReturn ==
    /\ km_pc = "second"
    /\ km_i >= Len(km_args.seq) - km_args.k + 1
    /\ km_pc' = "done"
    /\ UNCHANGED <<kcounts, delta_jsd, sr, callerVars, selectorVars, mashVars, pairVars,
                   distVars, sketchVars, hashVars, km_args, km_i, skip_until, kmers>>

KmersNext ==
    \/ KmersFirstLoop
    \/ KmersFirstEnd
    \/ KmersSecondLoop
    \/ KmersReturn

SpecKmers == KmersInit /\ [][KmersNext]_vars

\* the windows of seq without an ambiguous symbol, by increasing start
RECURSIVE CleanWindowsFrom(_, _, _, _)
CleanWindowsFrom(seq, i, k, num_states) ==
    IF i > Len(seq) - k THEN <<>>
    ELSE (IF \A j \in (i + 1)..(i + k) : seq[j] < num_states
          THEN <<Window(seq, i, k)>> ELSE <<>>)
         \o CleanWindowsFrom(seq, i + 1, k, num_states)

\* get_kmers returns the clean windows whenever it returns
KmersRightOnReturn ==
    km_pc = "done" =>
        kmers = CleanWindowsFrom(km_args.seq, 0, km_args.k, km_args.num_states)

\* C17: for every sequence of length >= 0, every k >= 1 and num_states,
\* get_kmers returns, by increasing start position, exactly the windows
\* seq[i:i+k] all of whose elements are < num_states; a sequence of only
\* ambiguous symbols, or one shorter than k, yields the empty list.
C17_KmersAreCleanWindows ==
    km_pc \notin {"idle", "first", "second"} =>
        /\ km_pc = "done"
        /\ kmers = CleanWindowsFrom(km_args.seq, 0, km_args.k, km_args.num_states)

\* ------------------------------------------- hash_kmer, reverse_complement
\* the states of a DNA k-mer are 0..NumBases - 1 (T, C, A, G)
NumBases == 4

Kmers == UNION {[1..m -> 0..(NumBases - 1)] : m \in 1..MaxKmer}

\* kmer[::-1]
Reversed(kmer) == [j \in 1..Len(kmer) |-> kmer[Len(kmer) + 1 - j]]

\* mutant: the complement is offset by one
ReverseComplementOffByOne(kmer) ==
    Reversed([j \in 1..Len(kmer) |-> (kmer[j] + 1) % NumBases])

\* reverse_complement: ((kmer + 2) % 4)[::-1]
ReverseComplement(kmer) ==
    Reversed([j \in 1..Len(kmer) |-> (kmer[j] + 2) % NumBases])

\* a < b for two tuples of integers, as Python compares them
RECURSIVE TupleLess(_, _)
TupleLess(a, b) ==
    IF a = <<>> THEN b # <<>>
    ELSE IF b = <<>> THEN FALSE
    ELSE IF Head(a) # Head(b) THEN Head(a) < Head(b)
    ELSE TupleLess(Tail(a), Tail(b))

\* min(a, b): the first argument unless the second is smaller
TupleMin(a, b) == IF TupleLess(b, a) THEN b ELSE a

\* hash(tuple): equal tuples have equal hashes; the model gives every tuple a
\* number of its own
RECURSIVE TupleHash(_)
TupleHash(t) ==
    IF t = <<>> THEN 0
    ELSE (t[Len(t)] + 1) + (NumBases + 1) * TupleHash(SubSeq(t, 1, Len(t) - 1))

\* hash_kmer(kmer, mash_canonical=...)
HashKmer(kmer, mash_canonical) ==
    LET tuple_kmer == kmer
        reverse == ReverseComplement(kmer)
    IN  TupleHash(IF mash_canonical THEN TupleMin(reverse, tuple_kmer) ELSE tuple_kmer)

\* no call made yet: calls is the set of the calls made
NoHashes == [calls |-> {}, once |-> <<>>, twice |-> <<>>, hash |-> 0, hash_reverse |-> 0]

HashInit ==
    /\ EverythingElseIdle
    /\ MashIdle
    /\ PairIdle
    /\ DistIdle
    /\ SketchIdle
    /\ KmersIdle
    /\ hk_args \in [kmer : Kmers, mash_canonical : BOOLEAN]
    /\ hk_out = NoHashes

\* r = reverse_complement(kmer); rr = reverse_complement(r)
CallReverseTwice ==
    /\ "reverse" \notin hk_out.calls
    /\ hk_out' = [hk_out EXCEPT
                     !.calls = @ \cup {"reverse"},
                     !.once = ReverseComplement(hk_args.kmer),
                     !.twice = ReverseComplement(ReverseComplement(hk_args.kmer))]
    /\ UNCHANGED <<kcounts, delta_jsd, sr, callerVars, selectorVars, mashVars, pairVars,
                   distVars, sketchVars, kmerVars, hk_args>>

\* hash_kmer(kmer, mash_canonical=mash_canonical)
CallHashKmer ==
    /\ "hash" \notin hk_out.calls
    /\ hk_out' = [hk_out EXCEPT
                     !.calls = @ \cup {"hash"},
                     !.hash = HashKmer(hk_args.kmer, hk_args.mash_canonical)]
    /\ UNCHANGED <<kcounts, delta_jsd, sr, callerVars, selectorVars, mashVars, pairVars,
                   distVars, sketchVars, kmerVars, hk_args>>

\* hash_kmer(reverse_complement(kmer), mash_canonical=mash_canonical)
CallHashReverse ==
    /\ "hash_reverse" \notin hk_out.calls
    /\ hk_out' = [hk_out EXCEPT
                     !.calls = @ \cup {"hash_reverse"},
                     !.hash_reverse = HashKmer(ReverseComplement(hk_args.kmer),
                                               hk_args.mash_canonical)]
    /\ UNCHANGED <<kcounts, delta_jsd, sr, callerVars, selectorVars, mashVars, pairVars,
                   distVars, sketchVars, kmerVars, hk_args>>

HashNext ==
    \/ CallReverseTwice
    \/ CallHashKmer
    \/ CallHashReverse

SpecHash == HashInit /\ [][HashNext]_vars

\* the complement of a base: T <-> A, C <-> G
Complement(x) == CHOOSE y \in 0..(NumBases - 1) : (y - x) % NumBases = 2

\* the smaller of a k-mer and its reverse complement in lexicographic order
CanonicalTuple(kmer) ==
    LET reverse == [j \in 1..Len(kmer) |-> Complement(kmer[Len(kmer) + 1 - j])]
    IN  IF \E j \in 1..Len(kmer) :
               /\ reverse[j] < kmer[j]
               /\ \A i \in 1..(j - 1) : reverse[i] = kmer[i]
        THEN reverse ELSE kmer

\* C18: for every k-mer x over {0,1,2,3}, reverse_complement applied twice
\* gives x back; with mash_canonical true hash_kmer hashes the
\* lexicographically smaller of the tuples of x and reverse_complement(x), so
\* that x and its reverse complement have the same hash; with mash_canonical
\* false it hashes the tuple of x itself.
C18_CanonicalHash ==
    /\ "reverse" \in hk_out.calls => hk_out.twice = hk_args.kmer
    /\ "hash" \in hk_out.calls =>
          hk_out.hash = TupleHash(IF hk_args.mash_canonical
                                  THEN CanonicalTuple(hk_args.kmer) ELSE hk_args.kmer)
    /\ (hk_args.mash_canonical /\ {"hash", "hash_reverse"} \subseteq hk_out.calls)
          => hk_out.hash = hk_out.hash_reverse

\* all three calls were made with mash_canonical true on a k-mer of two or
\* more bases whose reverse complement is the smaller tuple
C18_Witness ==
    /\ hk_args.mash_canonical
    /\ Len(hk_args.kmer) >= 2
    /\ hk_out.calls = {"reverse", "hash", "hash_reverse"}
    /\ hk_out.once # hk_args.kmer
    /\ hk_out.hash = TupleHash(hk_out.once)

====
